---- MODULE Spec2Model ----
(***************************************************************************)
(* A model of great_expectations' PandasReaderDatasource: the decorator    *)
(* _add_gx_args that wraps every pandas read_* method                      *)
(* (datasource/pandas_reader_datasource.py), and of AbstractConfig         *)
(* (core/configuration.py).                                                *)
(*                                                                         *)
(* One call of a wrapped method is followed statement by statement: pc is  *)
(* the position inside `wrapped`, the other variables are its parameters   *)
(* and locals under their source names.                                    *)
(***************************************************************************)
EXTENDS Integers, Sequences, FiniteSets, TLC

\* ------------------------------------------------------------------ bounds
\* Longest primary-argument string that is passed in.
MaxStrLen == 2
\* Most positional arguments that follow the primary argument.
MaxArgs == 3

\* ---------------------------------------------------------- python values
\* A Python value is its type name and its content; the content of a str is
\* the sequence of its characters, that of any other value an opaque token.
PyVal(t, v) == [t |-> t, v |-> v]
None == PyVal("NoneType", <<>>)
True == PyVal("bool", <<"True">>)
False == PyVal("bool", <<"False">>)
Str(s) == PyVal("str", s)
Obj(t, name) == PyVal(t, <<name>>)

\* An optional value of the model (not of Python): <<>> or <<x>>.
Opt(S) == {<<>>} \cup {<<x>> : x \in S}

\* bool(x) of the values that reach an `if`.
Truthy(x) ==
    CASE x.t = "bool" -> x = True
      [] x.t = "NoneType" -> FALSE
      [] x.t = "str" -> Len(x.v) > 0
      [] OTHER -> TRUE

\* The characters the regular expression class \s matches.
Whitespace == {" ", "\t", "\n", "\r", "\f"}

\* isinstance(var, str) and re.search('\s', var) == None
_decide_whether_to_use_variable_as_identifier(var) ==
    IF var.t # "str"
    THEN False
    ELSE IF \E i \in 1..Len(var.v) : var.v[i] \in Whitespace THEN False ELSE True

\* ------------------------------------------------------- the loader table
\* What each @_add_gx_args(...) line binds: primary_arg_variable_name (<<>>
\* when the decorator leaves it None), default_use_primary_arg_as_id and
\* arguments_excluded_from_runtime_parameters (a dict from name to position).
Binding(name, policy, excluded) ==
    [primary_arg_variable_name |-> name,
     default_use_primary_arg_as_id |-> policy,
     arguments_excluded_from_runtime_parameters |-> excluded]

NoExclusions == [k \in {} |-> 0]
ExcludeCon == [con |-> 1]

LoaderBinding ==
    [read_csv       |-> Binding(<<"filepath_or_buffer">>, None, NoExclusions),
     read_json      |-> Binding(<<"path_or_buf">>, False, NoExclusions),
     read_table     |-> Binding(<<"filepath_or_buffer">>, None, NoExclusions),
     read_clipboard |-> Binding(<<>>, False, NoExclusions),
     from_dataframe |-> Binding(<<"filepath_or_buffer">>, None, NoExclusions),
     read_sql_table |-> Binding(<<"table_name">>, True, ExcludeCon),
     read_sql_query |-> Binding(<<"sql">>, False, ExcludeCon),
     read_sql       |-> Binding(<<"sql">>, None, ExcludeCon),
     read_pickle    |-> Binding(<<"filepath_or_buffer">>, None, NoExclusions),
     read_fwf       |-> Binding(<<"filepath_or_buffer">>, None, NoExclusions),
     read_excel     |-> Binding(<<"io">>, None, NoExclusions),
     read_html      |-> Binding(<<"io">>, None, NoExclusions),
     read_xml       |-> Binding(<<"path_or_buffer">>, None, NoExclusions),
     read_hdf       |-> Binding(<<"path_or_buf">>, None, NoExclusions),
     read_sas       |-> Binding(<<"filepath_or_buffer">>, None, NoExclusions),
     read_gbq       |-> Binding(<<"query">>, False, NoExclusions),
     read_stata     |-> Binding(<<"filepath_or_buffer">>, None, NoExclusions),
     read_feather   |-> Binding(<<"path">>, True, NoExclusions),
     read_parquet   |-> Binding(<<"path">>, True, NoExclusions),
     read_orc       |-> Binding(<<"path">>, True, NoExclusions),
     read_spss      |-> Binding(<<"path">>, True, NoExclusions)]

\* The loaders that are called: one for every combination of default policy,
\* exclusion set and presence of a primary-argument name in the table.
Loaders ==
    {"read_csv", "read_json", "read_clipboard", "read_sql_table",
     "read_sql_query", "read_sql", "read_feather"}

\* The keyword-only parameters of `wrapped`.
AdapterKeys == {"id_", "use_primary_arg_as_id", "expectation_suite", "timestamp"}

\* ------------------------------------------------------------ dict helpers
\* d restricted to the keys in K.
Restrict(d, K) == [k \in (DOMAIN d) \cap K |-> d[k]]
\* d.pop(k): d without the key k.
Pop(d, k) == [j \in (DOMAIN d) \ {k} |-> d[j]]
\* d.get(k, default)
Get(d, k, default) == IF k \in DOMAIN d THEN d[k] ELSE default

\* [i for j, i in enumerate(args) if j not in remove_indices], j from 0.
RECURSIVE ListWithout(_, _, _)
ListWithout(args, j, remove_indices) ==
    IF args = <<>>
    THEN <<>>
    ELSE IF j \in remove_indices
         THEN ListWithout(Tail(args), j + 1, remove_indices)
         ELSE <<Head(args)>> \o ListWithout(Tail(args), j + 1, remove_indices)

\* The same with the positions taken as indices (index instead of index-1).
_remove_excluded_arguments_OffByOne(excluded, a, kw) ==
    LET remove_indices == {excluded[n] : n \in DOMAIN excluded}
    IN  [args |-> ListWithout(a, 0, remove_indices),
         kwargs |-> Restrict(kw, (DOMAIN kw) \ (DOMAIN excluded))]

\* PandasReaderDatasource._remove_excluded_arguments: the pair (args, kwargs).
_remove_excluded_arguments(excluded, a, kw) ==
    LET remove_indices == {excluded[n] - 1 : n \in DOMAIN excluded}
    IN  [args |-> ListWithout(a, 0, remove_indices),
         kwargs |-> Restrict(kw, (DOMAIN kw) \ (DOMAIN excluded))]

\* ------------------------------------------------------------------ state
VARIABLES
    pc,                     \* the position inside `wrapped`
    func,                   \* the decorated method that is being called
    call,                   \* the call as the caller wrote it: [pos, kw]
    primary_arg, args, kwargs, id_, use_primary_arg_as_id,
    expectation_suite, timestamp, df,   \* parameters and locals of `wrapped`
    now,                    \* what datetime.datetime.now() returned, if read
    received,               \* the arguments func was invoked with, if it was
    func_outcome,           \* "returned" or the exception func raised, "" if
                            \* func was not invoked
    raised,                 \* the exception that left `wrapped`, "" if none
    batch_request,          \* the RuntimeBatchRequest, once constructed
    validator,              \* the Validator, once constructed
    events,                 \* the steps of this call so far, in order
    previous                \* the load event before this call: its
                            \* batch_identifiers, whether the timestamp was
                            \* passed in, and the clock reading

\* AbstractConfig.dict_round_trip, statement by statement.
VARIABLES
    cfg_pc,                 \* the position inside dict_round_trip
    target,                 \* its argument
    _loaded,                \* schema.load(target)
    _config,                \* cls(**_loaded): the attributes that were set
    returned_dict,          \* what dict_round_trip returned
    cfg_raised              \* the exception that left it, "" if none

config_vars == <<cfg_pc, target, _loaded, _config, returned_dict, cfg_raised>>

frame == <<primary_arg, args, kwargs, id_, use_primary_arg_as_id,
           expectation_suite, timestamp, df>>
datasource_vars == <<pc, func, call, frame, now, received, func_outcome, raised,
                     batch_request, validator, events, previous>>
vars == <<datasource_vars, config_vars>>

\* ----------------------------------------------------------------- inputs
Chars == {"a", " "}
Strings == UNION {[1..n -> Chars] : n \in 0..MaxStrLen}
PrimaryValues == {None, Obj("int", "42")} \cup {Str(s) : s \in Strings}

\* The adapter does not look at the positional arguments after the primary
\* one, so the i-th of them is a token of its own: the first is a connection
\* for the read_sql* loaders.
ArgNames == <<"conn", "arg2", "arg3", "arg4", "arg5", "arg6">>
Positional(n) == [i \in 1..n |-> Obj("object", ArgNames[i])]

ClockReadings == {"t1", "t2"}
DateTime(t) == Obj("datetime", t)
PassedTimestamps == {DateTime("t1")}
PassedIds == {Str(<<"i", "d">>)}
PassedSuites == {Obj("ExpectationSuite", "suite")}
PassedConnections == {Obj("Connection", "conn_kw")}
PassedSeparators == {Str(<<",">>)}
PassedByName == {Str(<<"k">>)}
LoaderErrors == {"FileNotFoundError", "ParserError"}

\* The positional arguments of a call: nothing, or the primary argument
\* followed by at most n more.
PositionalCalls(n) ==
    {<<>>} \cup {<<p>> \o Positional(k) : p \in PrimaryValues, k \in 0..n}

\* The keyword arguments of a call of loader l: o says, per keyword, whether
\* it is passed and with what; "primary" stands for the loader's
\* primary_arg_variable_name.
KeywordName(l, k) ==
    IF k = "primary" THEN LoaderBinding[l].primary_arg_variable_name[1] ELSE k
Keywords(l, o) ==
    LET passed == {k \in DOMAIN o : o[k] # <<>>}
        names == {KeywordName(l, k) : k \in passed}
    IN  [n \in names |-> o[CHOOSE k \in passed : KeywordName(l, k) = n][1]]

\* Every way to pass the adapter's own keywords and the primary argument
\* by name.
IdentityOptions(l) ==
    [id_ : Opt(PassedIds),
     use_primary_arg_as_id : Opt({None, True, False}),
     timestamp : Opt(PassedTimestamps),
     primary : IF LoaderBinding[l].primary_arg_variable_name = <<>>
               THEN {<<>>} ELSE Opt(PassedByName),
     expectation_suite : {<<>>}, con : {<<>>}, sep : {<<>>}]
\* ... and, also, a suite and the loader's own keywords con and sep.
AllOptions(l) ==
    [id_ : Opt(PassedIds),
     use_primary_arg_as_id : Opt({None, True, False}),
     timestamp : Opt(PassedTimestamps),
     primary : IF LoaderBinding[l].primary_arg_variable_name = <<>>
               THEN {<<>>} ELSE Opt(PassedByName),
     expectation_suite : Opt(PassedSuites),
     con : Opt(PassedConnections),
     sep : Opt(PassedSeparators)]

NoCall == [pos |-> <<>>, kw |-> [k \in {} |-> None]]

\* ------------------------------------------------------------------- Init
\* A PandasReaderDatasource after construction: nothing is being called.
Init ==
    /\ pc = "idle"
    /\ func = "-"
    /\ call = NoCall
    /\ primary_arg = None
    /\ args = <<>>
    /\ kwargs = NoCall.kw
    /\ id_ = None
    /\ use_primary_arg_as_id = None
    /\ expectation_suite = None
    /\ timestamp = None
    /\ df = <<>>
    /\ now = <<>>
    /\ received = <<>>
    /\ func_outcome = ""
    /\ raised = ""
    /\ batch_request = <<>>
    /\ validator = <<>>
    /\ events = <<>>
    /\ previous = <<>>
    /\ cfg_pc = "idle"
    /\ target = NoCall.kw
    /\ _loaded = NoCall.kw
    /\ _config = NoCall.kw
    /\ returned_dict = NoCall.kw
    /\ cfg_raised = ""

\* ------------------------------------------------- the steps of `wrapped`
\* A binding that leaves the adapter's keywords in **kwargs too.
Bind_KeepsAdapterKeys(l, c) ==
    [primary_arg |-> IF Len(c.pos) >= 1 THEN c.pos[1] ELSE None,
     args |-> IF Len(c.pos) >= 1 THEN Tail(c.pos) ELSE <<>>,
     id_ |-> Get(c.kw, "id_", None),
     use_primary_arg_as_id |->
        Get(c.kw, "use_primary_arg_as_id",
            LoaderBinding[l].default_use_primary_arg_as_id),
     expectation_suite |-> Get(c.kw, "expectation_suite", None),
     timestamp |-> Get(c.kw, "timestamp", None),
     kwargs |-> c.kw]

\* Python's binding of a call to the signature of `wrapped`: the first
\* positional argument is primary_arg, the others are *args, the four
\* keyword-only parameters take their keywords or their defaults, and
\* **kwargs is what is left.
Bind(l, c) ==
    [primary_arg |-> IF Len(c.pos) >= 1 THEN c.pos[1] ELSE None,
     args |-> IF Len(c.pos) >= 1 THEN Tail(c.pos) ELSE <<>>,
     id_ |-> Get(c.kw, "id_", None),
     use_primary_arg_as_id |->
        Get(c.kw, "use_primary_arg_as_id",
            LoaderBinding[l].default_use_primary_arg_as_id),
     expectation_suite |-> Get(c.kw, "expectation_suite", None),
     timestamp |-> Get(c.kw, "timestamp", None),
     kwargs |-> Restrict(c.kw, (DOMAIN c.kw) \ AdapterKeys)]

\* The caller calls loader l with call c.
Enter(l, c) ==
    /\ UNCHANGED config_vars
    /\ pc = "idle"
    /\ LET b == Bind(l, c)
       IN  /\ primary_arg' = b.primary_arg
           /\ args' = b.args
           /\ kwargs' = b.kwargs
           /\ id_' = b.id_
           /\ use_primary_arg_as_id' = b.use_primary_arg_as_id
           /\ expectation_suite' = b.expectation_suite
           /\ timestamp' = b.timestamp
    /\ func' = l
    /\ call' = c
    /\ pc' = "check_exclusive"
    /\ UNCHANGED <<df, now, received, func_outcome, raised, batch_request, validator,
                   events, previous>>

\* if id_ is not None and use_primary_arg_as_id == True: raise ValueError
MustRaiseValueError_Inverted(id, use) == id = None /\ use = True
MustRaiseValueError(id, use) == id # None /\ use = True

CheckExclusive ==
    /\ UNCHANGED config_vars
    /\ pc = "check_exclusive"
    /\ events' = Append(events, "mutual_exclusion_check")
    /\ IF MustRaiseValueError(id_, use_primary_arg_as_id)
       THEN raised' = "ValueError" /\ pc' = "raised"
       ELSE raised' = raised /\ pc' = "resolve_id"
    /\ UNCHANGED <<func, call, frame, now, received, func_outcome, batch_request,
                   validator, previous>>

\* if id_ is None: ... the pair (id_, use_primary_arg_as_id) afterwards.
ResolveIdentifier(id, use, primary) ==
    IF id = None
    THEN LET u == IF use = None
                  THEN _decide_whether_to_use_variable_as_identifier(primary)
                  ELSE use
         IN  [id_ |-> IF Truthy(u) THEN primary ELSE None,
              use_primary_arg_as_id |-> u]
    ELSE [id_ |-> id, use_primary_arg_as_id |-> use]

ResolveId ==
    /\ UNCHANGED config_vars
    /\ pc = "resolve_id"
    /\ events' = Append(events, "identifier_resolution")
    /\ LET r == ResolveIdentifier(id_, use_primary_arg_as_id, primary_arg)
       IN  /\ id_' = r.id_
           /\ use_primary_arg_as_id' = r.use_primary_arg_as_id
    /\ pc' = "timestamp"
    /\ UNCHANGED <<func, call, primary_arg, args, kwargs, expectation_suite,
                   timestamp, df, now, received, func_outcome, raised, batch_request,
                   validator, previous>>

\* A timestamp taken once, when the method was decorated.
TimestampOf_Stale(passed, reading) ==
    IF passed = None THEN DateTime("t1") ELSE passed

\* if timestamp == None: timestamp = datetime.datetime.now()
\* The wall clock is the environment's: any reading can come back.
TimestampOf(passed, reading) ==
    IF passed = None THEN DateTime(reading) ELSE passed

TakeTimestamp ==
    /\ UNCHANGED config_vars
    /\ pc = "timestamp"
    /\ IF timestamp = None
       THEN \E t \in ClockReadings :
                /\ now' = <<t>>
                /\ timestamp' = TimestampOf(timestamp, t)
       ELSE UNCHANGED <<now, timestamp>>
    /\ pc' = "rehydrate"
    /\ UNCHANGED <<func, call, primary_arg, args, kwargs, id_,
                   use_primary_arg_as_id, expectation_suite, df, received, func_outcome,
                   raised, batch_request, validator, events, previous>>

\* if primary_arg_variable_name in kwargs:
\*     if primary_arg != None: raise TypeError
\*     primary_arg = kwargs.pop(primary_arg_variable_name)
NamedInKwargs(l, kw) ==
    /\ LoaderBinding[l].primary_arg_variable_name # <<>>
    /\ LoaderBinding[l].primary_arg_variable_name[1] \in DOMAIN kw
MustRaiseTypeError(l, primary, kw) ==
    NamedInKwargs(l, kw) /\ primary # None

Rehydrate ==
    /\ UNCHANGED config_vars
    /\ pc = "rehydrate"
    /\ events' = Append(events, "ambiguity_check")
    /\ IF MustRaiseTypeError(func, primary_arg, kwargs)
       THEN /\ raised' = "TypeError"
            /\ pc' = "raised"
            /\ UNCHANGED <<primary_arg, kwargs>>
       ELSE /\ raised' = raised
            /\ pc' = "invoke"
            /\ IF NamedInKwargs(func, kwargs)
               THEN LET name == LoaderBinding[func].primary_arg_variable_name[1]
                    IN  /\ primary_arg' = kwargs[name]
                        /\ kwargs' = Pop(kwargs, name)
               ELSE UNCHANGED <<primary_arg, kwargs>>
    /\ UNCHANGED <<func, call, args, id_, use_primary_arg_as_id,
                   expectation_suite, timestamp, df, now, received, func_outcome,
                   batch_request, validator, previous>>

\* df = func(self, primary_arg, *args, **kwargs): what func is handed.
Forwarded(primary, a, kw) == [primary_arg |-> primary, args |-> a, kwargs |-> kw]

\* An invocation that catches what the loader raises and goes on with an
\* empty frame.
Invoke_Swallows ==
    /\ UNCHANGED config_vars
    /\ pc = "invoke"
    /\ events' = Append(events, "loader_invocation")
    /\ received' = <<Forwarded(primary_arg, args, kwargs)>>
    /\ \/ /\ func_outcome' = "returned"
          /\ df' = <<Obj("DataFrame", "df")>>
          /\ pc' = "filter"
          /\ raised' = raised
       \/ \E e \in LoaderErrors :
             /\ func_outcome' = e
             /\ raised' = raised
             /\ pc' = "filter"
             /\ df' = <<Obj("DataFrame", "empty")>>
    /\ UNCHANGED <<func, call, primary_arg, args, kwargs, id_,
                   use_primary_arg_as_id, expectation_suite, timestamp, now,
                   batch_request, validator, previous>>

\* The pandas reader is not part of the adapter: it returns a DataFrame or
\* raises, and what it raises leaves `wrapped` as it is (there is no except).
Invoke ==
    /\ UNCHANGED config_vars
    /\ pc = "invoke"
    /\ events' = Append(events, "loader_invocation")
    /\ received' = <<Forwarded(primary_arg, args, kwargs)>>
    /\ \/ /\ func_outcome' = "returned"
          /\ df' = <<Obj("DataFrame", "df")>>
          /\ pc' = "filter"
          /\ raised' = raised
       \/ \E e \in LoaderErrors :
             /\ func_outcome' = e
             /\ raised' = e
             /\ pc' = "raised"
             /\ df' = df
    /\ UNCHANGED <<func, call, primary_arg, args, kwargs, id_,
                   use_primary_arg_as_id, expectation_suite, timestamp, now,
                   batch_request, validator, previous>>

\* args, kwargs = self._remove_excluded_arguments(...)
Filter ==
    /\ UNCHANGED config_vars
    /\ pc = "filter"
    /\ events' = Append(events, "exclusion_filtering")
    /\ LET r == _remove_excluded_arguments(
                    LoaderBinding[func].arguments_excluded_from_runtime_parameters,
                    args, kwargs)
       IN  args' = r.args /\ kwargs' = r.kwargs
    /\ pc' = "request"
    /\ UNCHANGED <<func, call, primary_arg, id_, use_primary_arg_as_id,
                   expectation_suite, timestamp, df, now, received, func_outcome, raised,
                   batch_request, validator, previous>>

\* RuntimeBatchRequest(...)
RuntimeBatchRequest(data, a, kw, id, ts) ==
    [data_connector_name |-> "runtime_data_connector",
     data_asset_name |-> "default_data_asset",
     runtime_parameters |-> [batch_data |-> data, args |-> a, kwargs |-> kw],
     batch_identifiers |-> [id_ |-> id, timestamp |-> ts]]

BuildRequest ==
    /\ UNCHANGED config_vars
    /\ pc = "request"
    /\ events' = Append(events, "load_request_construction")
    /\ batch_request' = <<RuntimeBatchRequest(df[1], args, kwargs, id_, timestamp)>>
    /\ pc' = "validator"
    /\ UNCHANGED <<func, call, frame, now, received, func_outcome, raised, validator,
                   previous>>

\* Validator(execution_engine=..., expectation_suite=..., batches=[batch]),
\* batch being the one batch of the request; return validator.
Validator(suite, request) ==
    [execution_engine |-> "PandasExecutionEngine",
     expectation_suite |-> suite,
     batches |-> <<request>>]

BuildValidator ==
    /\ UNCHANGED config_vars
    /\ pc = "validator"
    /\ events' = Append(events, "validator_construction")
    /\ validator' = <<Validator(expectation_suite, batch_request[1])>>
    /\ pc' = "returned"
    /\ UNCHANGED <<func, call, frame, now, received, func_outcome, raised, batch_request,
                   previous>>

\* The call is over and its frame is gone; a load event, if there was one,
\* is the previous one from now on.
LoadEvent ==
    [batch_identifiers |-> batch_request[1].batch_identifiers,
     passed_timestamp |-> "timestamp" \in DOMAIN call.kw,
     now |-> now]

Leave(keep) ==
    /\ UNCHANGED config_vars
    /\ pc \in {"returned", "raised"}
    /\ pc' = "idle"
    /\ func' = "-"
    /\ call' = NoCall
    /\ primary_arg' = None
    /\ args' = <<>>
    /\ kwargs' = NoCall.kw
    /\ id_' = None
    /\ use_primary_arg_as_id' = None
    /\ expectation_suite' = None
    /\ timestamp' = None
    /\ df' = <<>>
    /\ now' = <<>>
    /\ received' = <<>>
    /\ func_outcome' = ""
    /\ raised' = ""
    /\ batch_request' = <<>>
    /\ validator' = <<>>
    /\ events' = <<>>
    /\ previous' = IF keep /\ batch_request # <<>> THEN <<LoadEvent>>
                   ELSE IF keep THEN previous ELSE <<>>

Steps ==
    \/ CheckExclusive
    \/ ResolveId
    \/ TakeTimestamp
    \/ Rehydrate
    \/ Invoke
    \/ Filter
    \/ BuildRequest
    \/ BuildValidator

\* ------------------------------------------------------- AbstractConfig
\* An __init__ that sets both attributes whatever their value.
AbstractConfig_init_SetsAll(id, name) ==
    [k \in {"id_", "name"} |-> IF k = "id_" THEN id ELSE name]

\* AbstractConfig.__init__(id_, name): the attributes the instance has.
AbstractConfig_init(id, name) ==
    [k \in (IF id # None THEN {"id_"} ELSE {}) \cup
           (IF name # None THEN {"name"} ELSE {})
        |-> IF k = "id_" THEN id ELSE name]

\* cls(**_loaded): the keywords id_ and name, None when they are not given.
Construct(loaded) ==
    AbstractConfig_init(Get(loaded, "id_", None), Get(loaded, "name", None))

\* The schema of a config with the fields id_ and name: a mapping conforms
\* when it has no other key and every value is a string or None; load
\* returns the fields of a conforming mapping.
SchemaFields == {"id_", "name"}
Conforms(t) ==
    /\ DOMAIN t \subseteq SchemaFields
    /\ \A k \in DOMAIN t : t[k].t \in {"str", "NoneType"}
schema_load(t) == t

\* to_json_dict: the attributes of the instance under their serialized
\* names, id_ being exposed as id.
SerializedName(k) == IF k = "id_" THEN "id" ELSE k
to_json_dict(attrs) ==
    [n \in {SerializedName(k) : k \in DOMAIN attrs}
        |-> attrs[CHOOSE k \in DOMAIN attrs : SerializedName(k) = n]]

\* The mappings that are round-tripped: o says, per key, whether the
\* mapping has it and with what value.
Mapping(o) == [k \in {k \in DOMAIN o : o[k] # <<>>} |-> o[k][1]]
ConfigIds == {None, Str(<<>>), Str(<<"a">>), Str(<<"a", "b", "c">>)}
ConfigNames == {None, Str(<<>>), Str(<<"n">>), Obj("int", "7")}
ConfigOthers == {Str(<<"x">>)}
Targets ==
    {Mapping(o) :
        o \in [id_ : Opt(ConfigIds), name : Opt(ConfigNames),
               class_name : Opt(ConfigOthers)]}

dict_round_trip(t) ==
    /\ cfg_pc = "idle"
    /\ target' = t
    /\ cfg_pc' = "load"
    /\ UNCHANGED <<_loaded, _config, returned_dict, cfg_raised>>
    /\ UNCHANGED datasource_vars

RoundTrip ==
    /\ cfg_pc = "idle"
    /\ \E t \in Targets : dict_round_trip(t)

\* _loaded = cast(Mapping, schema.load(target))
Load ==
    /\ cfg_pc = "load"
    /\ IF Conforms(target)
       THEN /\ _loaded' = schema_load(target)
            /\ cfg_pc' = "construct"
            /\ cfg_raised' = cfg_raised
       ELSE /\ cfg_raised' = "ValidationError"
            /\ cfg_pc' = "raised"
            /\ _loaded' = _loaded
    /\ UNCHANGED <<target, _config, returned_dict>>
    /\ UNCHANGED datasource_vars

\* _config = cls(**_loaded)
ConstructConfig ==
    /\ cfg_pc = "construct"
    /\ _config' = Construct(_loaded)
    /\ cfg_pc' = "serialize"
    /\ UNCHANGED <<target, _loaded, returned_dict, cfg_raised>>
    /\ UNCHANGED datasource_vars

\* return _config.to_json_dict()
Serialize ==
    /\ cfg_pc = "serialize"
    /\ returned_dict' = to_json_dict(_config)
    /\ cfg_pc' = "returned"
    /\ UNCHANGED <<target, _loaded, _config, cfg_raised>>
    /\ UNCHANGED datasource_vars

ConfigDone ==
    /\ cfg_pc \in {"returned", "raised"}
    /\ cfg_pc' = "idle"
    /\ target' = NoCall.kw
    /\ _loaded' = NoCall.kw
    /\ _config' = NoCall.kw
    /\ returned_dict' = NoCall.kw
    /\ cfg_raised' = ""
    /\ UNCHANGED datasource_vars

\* ---------------------------------------------------------- specifications
\* Spec: single calls, with every kind of argument, each on a datasource
\* that has loaded nothing before.
AnyCall ==
    /\ pc = "idle"
    /\ \E l \in Loaders :
        \E pos \in PositionalCalls(MaxArgs), o \in AllOptions(l) :
            Enter(l, [pos |-> pos, kw |-> Keywords(l, o)])

Discard == Leave(FALSE)

Next == AnyCall \/ Steps \/ Discard

Spec == Init /\ [][Next]_vars

\* SpecSeq: calls one after the other on the same datasource; the arguments
\* are those that decide the batch identifiers.
IdentityCall ==
    /\ pc = "idle"
    /\ \E l \in Loaders :
        \E pos \in PositionalCalls(0), o \in IdentityOptions(l) :
            Enter(l, [pos |-> pos, kw |-> Keywords(l, o)])

Remember == Leave(TRUE)

NextSeq == IdentityCall \/ Steps \/ Remember

SpecSeq == Init /\ [][NextSeq]_vars

\* SpecConfig: round trips of config mappings through the schema.
NextConfig == RoundTrip \/ Load \/ ConstructConfig \/ Serialize \/ ConfigDone

SpecConfig == Init /\ [][NextConfig]_vars

\* ----------------------------------------------------------------- claims
\* What the caller of the current call passed.
Supplied(k) == k \in DOMAIN call.kw
Policy == LoaderBinding[func].default_use_primary_arg_as_id
Excluded == LoaderBinding[func].arguments_excluded_from_runtime_parameters
PrimaryName == LoaderBinding[func].primary_arg_variable_name
HasPrimaryName == func # "-" /\ PrimaryName # <<>>
SuppliedByName == HasPrimaryName /\ Supplied(PrimaryName[1])
SuppliedByPosition == Len(call.pos) >= 1
Over == pc \in {"returned", "raised"}
RecordedId == batch_request[1].batch_identifiers.id_
\* The primary argument of the call: the one passed by name, else the one
\* passed by position, else None.
PrimaryOfCall ==
    IF SuppliedByName THEN call.kw[PrimaryName[1]]
    ELSE IF SuppliedByPosition THEN call.pos[1] ELSE None
HasWhitespace(x) == \E i \in 1..Len(x.v) : x.v[i] \in Whitespace

\* C1: for a loader of any default policy, a call that passes id_ and does
\* not pass use_primary_arg_as_id does not fail in the identifier resolution
\* and the load request's identifier is the id_ that was passed.
C1_ExplicitIdIsUsed ==
    (Supplied("id_") /\ ~Supplied("use_primary_arg_as_id"))
        => /\ raised # "ValueError"
           /\ batch_request # <<>> => RecordedId = call.kw["id_"]

\* C2: for a loader whose default policy is True, a call that passes nothing
\* but a primary string argument, by position or by its keyword name, yields
\* a load request whose identifier is that argument.
C2_PrimaryIsIdentifier ==
    (/\ pc = "returned"
     /\ Policy = True
     /\ \/ Len(call.pos) = 1 /\ DOMAIN call.kw = {}
        \/ Len(call.pos) = 0 /\ HasPrimaryName /\ DOMAIN call.kw = {PrimaryName[1]}
     /\ PrimaryOfCall.t = "str")
        => RecordedId = PrimaryOfCall

\* C3: a call that passes both id_ and use_primary_arg_as_id = True fails,
\* whatever the loader and the other arguments: once the check at the top of
\* `wrapped` has run, the call has ended with the ValueError of that check
\* (the spec's ConfigurationError) and the loader was not invoked.
C3_BothAlwaysFail ==
    (/\ Supplied("id_")
     /\ Supplied("use_primary_arg_as_id")
     /\ call.kw["use_primary_arg_as_id"] = True
     /\ pc # "check_exclusive")
        => /\ pc = "raised"
           /\ raised = "ValueError"
           /\ received = <<>>
           /\ batch_request = <<>>
           /\ validator = <<>>

\* C3's case: such a call, of a loader whose default policy is False and
\* with further arguments, has failed.
C3_Witness ==
    /\ pc = "raised"
    /\ raised = "ValueError"
    /\ func = "read_sql_query"
    /\ Supplied("id_")
    /\ Supplied("use_primary_arg_as_id")
    /\ call.kw["use_primary_arg_as_id"] = True
    /\ Len(call.pos) = 3
    /\ Supplied("sep")

\* C4: for a loader whose default policy is unset, with no id_ and no
\* use_primary_arg_as_id passed, the identifier is the primary argument when
\* that is a string without whitespace, and absent when it is a string with
\* whitespace or not a string.
C4_Heuristic ==
    (/\ pc = "returned"
     /\ Policy = None
     /\ ~Supplied("id_")
     /\ ~Supplied("use_primary_arg_as_id"))
        => RecordedId = IF PrimaryOfCall.t = "str" /\ ~HasWhitespace(PrimaryOfCall)
                        THEN PrimaryOfCall
                        ELSE None

\* C5: a call that passes the primary argument by position and by its
\* keyword name, whatever the value in the positional slot, ends with the
\* TypeError of the ambiguous argument (the calls that the check of id_
\* against use_primary_arg_as_id refuses first are left aside).
C5_BothWaysAlwaysTypeError ==
    (/\ Over
     /\ SuppliedByPosition
     /\ SuppliedByName
     /\ raised # "ValueError")
        => raised = "TypeError"

\* seq without the entries at the positions in P, counted from 1, the
\* others in their order.
Without(seq, P) ==
    LET keep == {i \in 1..Len(seq) : i \notin P}
        nth(k) == CHOOSE i \in keep : Cardinality({j \in keep : j <= i}) = k
    IN  [k \in 1..Cardinality(keep) |-> seq[nth(k)]]
Range(f) == {f[x] : x \in DOMAIN f}
\* The arguments of the call that are the loader's own, as the caller wrote
\* them: the positional ones after the primary argument, and the keywords
\* that are neither the adapter's nor the primary argument's name.
PassThroughArgs == IF SuppliedByPosition THEN Tail(call.pos) ELSE <<>>
PassThroughKeys ==
    (DOMAIN call.kw) \ (AdapterKeys \cup (IF HasPrimaryName THEN {PrimaryName[1]} ELSE {}))
PassThroughKwargs == [k \in PassThroughKeys |-> call.kw[k]]

\* C6: after a successful call of a loader with an exclusion set, every
\* excluded argument (by name, or by its position after the primary
\* argument) was passed to the loader and is in neither the recorded args nor
\* the recorded kwargs of the load request, and every other pass-through
\* argument is recorded, the positional ones in their order.
C6_ExcludedNotRecorded ==
    (pc = "returned" /\ DOMAIN Excluded # {})
        => LET recorded == batch_request[1].runtime_parameters
               positions == {Excluded[n] : n \in DOMAIN Excluded}
           IN  /\ received[1].args = PassThroughArgs
               /\ received[1].kwargs = PassThroughKwargs
               /\ recorded.args = Without(PassThroughArgs, positions)
               /\ recorded.kwargs =
                     [k \in PassThroughKeys \ DOMAIN Excluded |-> call.kw[k]]
               /\ \A i \in positions \cap (1..Len(PassThroughArgs)) :
                     PassThroughArgs[i] \notin Range(recorded.args)
               /\ \A n \in (DOMAIN Excluded) \cap PassThroughKeys :
                     /\ n \notin DOMAIN recorded.kwargs
                     /\ call.kw[n] \notin Range(recorded.kwargs)

\* C6's case: read_sql_table returned after a call with the connection in
\* position 1, two more positional arguments and the keyword sep.
C6_Witness ==
    /\ pc = "returned"
    /\ func = "read_sql_table"
    /\ Len(PassThroughArgs) = 3
    /\ received[1].args[1] = Obj("object", "conn")
    /\ Supplied("sep")
    /\ Len(batch_request[1].runtime_parameters.args) = 2

\* C8: whenever the loader is invoked it receives the primary argument of
\* the call, the other positional arguments in their order and the other
\* keyword arguments as they were passed: none of id_,
\* use_primary_arg_as_id, timestamp and expectation_suite, and not the
\* primary argument a second time under its name.
C8_ForwardedVerbatim ==
    received # <<>>
        => /\ received[1].primary_arg = PrimaryOfCall
           /\ received[1].args = PassThroughArgs
           /\ received[1].kwargs = PassThroughKwargs
           /\ (DOMAIN received[1].kwargs) \cap AdapterKeys = {}
           /\ HasPrimaryName => PrimaryName[1] \notin DOMAIN received[1].kwargs

\* C8's case: the loader was invoked by a call that passed every control of
\* the adapter, the primary argument by name and arguments of the loader's.
C8_Witness ==
    /\ received # <<>>
    /\ AdapterKeys \subseteq DOMAIN call.kw
    /\ SuppliedByName
    /\ Len(call.pos) = 3
    /\ Supplied("sep")
    /\ received[1].primary_arg = Str(<<"k">>)

\* The order of the steps of one call.
Order ==
    <<"mutual_exclusion_check", "identifier_resolution", "ambiguity_check",
      "loader_invocation", "exclusion_filtering", "load_request_construction",
      "validator_construction">>
Last(seq) == seq[Len(seq)]
Happened(e) == \E i \in 1..Len(events) : events[i] = e

\* C10: the steps of a call happen in the order of Order, each step's effect
\* is there exactly when the step has happened, and a failure ends the call
\* at its step: after the ValueError or the TypeError the loader was never
\* invoked, and an error raised by the loader leaves the call as it was
\* raised, with no load request and no validator.
C10_OrderAndFailure ==
    /\ events = SubSeq(Order, 1, Len(events))
    /\ Happened("loader_invocation") <=> received # <<>>
    /\ Happened("load_request_construction") <=> batch_request # <<>>
    /\ Happened("validator_construction") <=> validator # <<>>
    /\ pc = "raised" <=> raised # ""
    /\ pc = "returned" => events = Order
    /\ raised = "ValueError" =>
          /\ Last(events) = "mutual_exclusion_check"
          /\ received = <<>>
    /\ raised = "TypeError" =>
          /\ Last(events) = "ambiguity_check"
          /\ received = <<>>
    /\ func_outcome \in LoaderErrors =>
          /\ raised = func_outcome
          /\ Last(events) = "loader_invocation"
          /\ batch_request = <<>>
          /\ validator = <<>>
    /\ raised \notin {"", "ValueError", "TypeError"} => raised = func_outcome

\* C10's case: the loader raised and the call has ended with that error.
C10_Witness ==
    /\ pc = "raised"
    /\ func_outcome = "ParserError"
    /\ raised = "ParserError"
    /\ events = SubSeq(Order, 1, 4)

\* The load event of the call that is returning, as Remember will keep it.
PassedTimestamp == Supplied("timestamp")
ThisPair == batch_request[1].batch_identifiers

\* C7: of the load events of successive calls on one datasource, no two have
\* the same (id_, timestamp) pair, also when the identifier is absent in both
\* and when the caller passes the timestamp. Calls keep nothing of one
\* another, so any two load events are those of two calls in a row: previous
\* and this one. The clock is given the benefit of the doubt: two events
\* that both read it and read the same value are left aside.
SameClockReading ==
    /\ ~PassedTimestamp
    /\ ~previous[1].passed_timestamp
    /\ previous[1].now = now
C7_PairsUnique ==
    (pc = "returned" /\ previous # <<>> /\ ~SameClockReading)
        => previous[1].batch_identifiers # ThisPair

\* C7 as amended: the timestamp of a load request is the one passed in, or
\* else the clock reading taken in the call; so two load events that both
\* take their timestamp from the clock, at different readings, have
\* different pairs, also when both identifiers are absent.
C7_ClockPairsDiffer ==
    pc = "returned"
        => /\ ThisPair.timestamp =
                 IF PassedTimestamp THEN call.kw["timestamp"] ELSE DateTime(now[1])
           /\ PassedTimestamp => now = <<>>
           /\ (/\ previous # <<>>
               /\ ~PassedTimestamp
               /\ ~previous[1].passed_timestamp
               /\ previous[1].now # now)
                 => previous[1].batch_identifiers # ThisPair

\* C7's case: two load events in a row without identifier, both timed by
\* the clock, at different readings.
C7_Witness ==
    /\ pc = "returned"
    /\ previous # <<>>
    /\ ~PassedTimestamp
    /\ ~previous[1].passed_timestamp
    /\ previous[1].now # now
    /\ ThisPair.id_ = None
    /\ previous[1].batch_identifiers.id_ = None

\* C9: a config constructed by the round trip has exactly the attributes
\* among id_ and name that the mapping gives with a value other than None,
\* and the serialized mapping has exactly these, id_ under the key id, and
\* no key with a null value: {} comes back as {} and {"id_": "abc"} as
\* {"id": "abc"}, without a name key.
GivenFields == {k \in (DOMAIN target) \cap SchemaFields : target[k] # None}
C9_AbsentFieldsOmitted ==
    /\ cfg_pc \in {"serialize", "returned"} =>
          /\ DOMAIN _config = GivenFields
          /\ \A k \in GivenFields : _config[k] = target[k]
    /\ cfg_pc = "returned" =>
          /\ DOMAIN returned_dict = {SerializedName(k) : k \in GivenFields}
          /\ \A n \in DOMAIN returned_dict : returned_dict[n] # None
          /\ "id_" \notin DOMAIN returned_dict
          /\ "id_" \in GivenFields => returned_dict["id"] = target["id_"]
          /\ "name" \in GivenFields => returned_dict["name"] = target["name"]
          /\ DOMAIN target = {} => DOMAIN returned_dict = {}
          /\ target = [id_ |-> Str(<<"a", "b", "c">>)] =>
                returned_dict = [id |-> Str(<<"a", "b", "c">>)]

\* C9's case: {"id_": "abc", "name": None} has come back as {"id": "abc"}.
C9_Witness ==
    /\ cfg_pc = "returned"
    /\ target = [id_ |-> Str(<<"a", "b", "c">>), name |-> None]
    /\ returned_dict = [id |-> Str(<<"a", "b", "c">>)]

====
